---------------------------- MODULE Spec2Model ----------------------------
(***************************************************************************)
(* Model of the turn engine of src/oopway.py: play_game reads one request  *)
(* per line, make_draft stores the draft options, make_turn walks the own  *)
(* ships of a battle snapshot, keeps the module-level `targets` and        *)
(* `taken`, and builds the command batch that play_game prints.            *)
(*                                                                         *)
(* Vectors are triples <<X, Y, Z>>.  A Python exception that escapes       *)
(* make_turn ends the process (play_game does not catch it), so the model  *)
(* records its name in `err` and stops in pc = "crashed".                  *)
(* JSON decoding, the Message/debug_string text and the unused plotLine3d  *)
(* are not modelled; ships arrive already decoded.                         *)
(***************************************************************************)
EXTENDS Integers, Sequences, FiniteSets, TLC

VARIABLES
    pc,             \* "idle": in input(); "turn": a snapshot is decoded; "respond": make_turn returned;
                    \* "crashed": an exception ended the process; "shoot"/"shot": before/after shoot_nearest_enemy
    draft_options,  \* module global draft_options (unbound before make_draft)
    draft_choice,   \* the Ships list of the last DraftChoice
    targets,        \* module global targets: own ship id -> opponent Ship object
    taken,          \* module global taken: set of opponent ids
    My,             \* battle_state.My of the turn being answered
    Opponent,       \* battle_state.Opponent of the turn being answered
    out,            \* battle_output.UserCommands
    err,            \* name of the exception that ended the process, "" if none
    pre,            \* history: targets and taken as they stood when the turn started
    trace,          \* history: one entry per own ship the loop of make_turn entered
    turn            \* number of make_turn calls so far (model bound only)

vars == <<pc, draft_options, draft_choice, targets, taken, My, Opponent, out, err, pre, trace, turn>>

-----------------------------------------------------------------------------
(* Bounds of the model *)

MaxTurns == 2
MaxHealth == 2
MaxRadius == 3

(* Program constants *)

ShipsToBuy == 5
ForwardPrice == 50
NoDistance == 1000000

-----------------------------------------------------------------------------
(* Vector *)

Abs(n) == IF n < 0 THEN -n ELSE n

Max3(a, b, c) == IF a >= b /\ a >= c THEN a ELSE IF b >= c THEN b ELSE c

Vector(x, y, z) == <<x, y, z>>

VAdd(a, b) == <<a[1] + b[1], a[2] + b[2], a[3] + b[3]>>

VSub(a, b) == <<a[1] - b[1], a[2] - b[2], a[3] - b[3]>>

(* abs(a - b), Vector.__sub__ then Vector.__abs__: the largest axis difference *)
Distance(a, b) == Max3(Abs(a[1] - b[1]), Abs(a[2] - b[2]), Abs(a[3] - b[3]))

Zero == Vector(0, 0, 0)

(* Ship.get_all_points: the eight points in the order the code lists them *)
get_all_points(Position) ==
    << Position,
       VAdd(Position, Vector(1, 0, 0)),
       VAdd(Position, Vector(0, 1, 0)),
       VAdd(Position, Vector(0, 0, 1)),
       VAdd(Position, Vector(1, 1, 0)),
       VAdd(Position, Vector(0, 1, 1)),
       VAdd(Position, Vector(1, 0, 1)),
       VAdd(Position, Vector(1, 1, 1)) >>

-----------------------------------------------------------------------------
(* Equipment and commands *)

GunBlock(name, radius) == [Type |-> "Gun", Name |-> name, Radius |-> radius, MaxAccelerate |-> 0]

EngineBlock(name, m) == [Type |-> "Engine", Name |-> name, Radius |-> 0, MaxAccelerate |-> m]

(* [x for x in ship.Equipment if isinstance(x, cls)] *)
BlocksOf(Equipment, type) == SelectSeq(Equipment, LAMBDA x : x.Type = type)

MoveCommand(id, point) == [Command |-> "MOVE", Id |-> id, Target |-> point]

AttackCommand(id, name, point) == [Command |-> "ATTACK", Id |-> id, Name |-> name, Target |-> point]

AccelerateCommand(id, v) == [Command |-> "ACCELERATE", Id |-> id, Vector |-> v]

(* adapt(team, vector): never called by make_turn or make_simple_move *)
adapt(team, vector, MapSize) ==
    IF team = 1
    THEN Vector(MapSize - 2 - vector[1], MapSize - 2 - vector[2], MapSize - 2 - vector[3])
    ELSE vector

(* make_simple_move appends MOVE with the point it is handed *)
make_simple_move(ship, point) == <<MoveCommand(ship.Id, point)>>

-----------------------------------------------------------------------------
(* shoot_nearest_enemy *)

(* the firing port chosen by the octant of enemy.Position - ship.Position *)
GunPos(ship, enemy) ==
    LET ip == VSub(enemy.Position, ship.Position)
    IN  IF ip[1] >= 0 /\ ip[2] >= 0
        THEN (IF ip[3] >= 0 THEN VAdd(ship.Position, Vector(0, 0, 1)) ELSE ship.Position)
        ELSE IF ip[1] >= 0 /\ ip[2] < 0
        THEN (IF ip[3] >= 0 THEN VAdd(ship.Position, Vector(0, 1, 1))
                            ELSE VAdd(ship.Position, Vector(0, 1, 0)))
        ELSE IF ip[1] < 0 /\ ip[2] >= 0
        THEN (IF ip[3] >= 0 THEN VAdd(ship.Position, Vector(1, 0, 1))
                            ELSE VAdd(ship.Position, Vector(1, 0, 0)))
        ELSE (IF ip[3] >= 0 THEN VAdd(ship.Position, Vector(1, 1, 1))
                            ELSE VAdd(ship.Position, Vector(1, 1, 0)))

(* the loop over enemy.get_all_points(): k is the next point, md/mv the running minimum *)
RECURSIVE NearestPoint(_, _, _, _, _, _)
NearestPoint(points, gun_pos, Radius, k, md, mv) ==
    IF k > Len(points) THEN [min_distance |-> md, min_vector |-> mv]
    ELSE LET dist_to_point == Distance(points[k], gun_pos)
         IN  IF Radius >= dist_to_point /\ dist_to_point < md
             THEN NearestPoint(points, gun_pos, Radius, k + 1, dist_to_point, points[k])
             ELSE NearestPoint(points, gun_pos, Radius, k + 1, md, mv)

(* the list `available` of (enemy.Health, min_vector), built in opponent order *)
RECURSIVE Available(_, _, _, _)
Available(ship, gun, opp, k) ==
    IF k > Len(opp) THEN <<>>
    ELSE LET np == NearestPoint(get_all_points(opp[k].Position), GunPos(ship, opp[k]),
                                gun.Radius, 1, NoDistance, Zero)
         IN  (IF np.min_distance < NoDistance THEN <<<<opp[k].Health, np.min_vector>>>> ELSE <<>>)
             \o Available(ship, gun, opp, k + 1)

(* sorted(available, key=lambda x: x[0])[0]: the sort is stable, so the first
   entry of the least Health comes first *)
RECURSIVE FirstLeast(_, _, _)
FirstLeast(available, k, best) ==
    IF k > Len(available) THEN best
    ELSE FirstLeast(available, k + 1,
                    IF available[k][1] < available[best][1] THEN k ELSE best)

(* a shot at the first reachable opponent, whatever its Health *)
shoot_first_available(ship, opp) ==
    LET guns == BlocksOf(ship.Equipment, "Gun")
    IN  IF guns = <<>> THEN <<>>
        ELSE LET gun == guns[1]
                 available == Available(ship, gun, opp, 1)
             IN  IF available = <<>> THEN <<>>
                 ELSE <<AttackCommand(ship.Id, gun.Name, available[1][2])>>

(* the commands one call of shoot_nearest_enemy appends to battle_output *)
shoot_nearest_enemy(ship, opp) ==
    LET guns == BlocksOf(ship.Equipment, "Gun")
    IN  IF guns = <<>> THEN <<>>
        ELSE LET gun == guns[1]
                 available == Available(ship, gun, opp, 1)
             IN  IF available = <<>> THEN <<>>
                 ELSE <<AttackCommand(ship.Id, gun.Name,
                                      available[FirstLeast(available, 1, 1)][2])>>

(* for i in range(len(guns)): shoot_nearest_enemy(...) *)
RECURSIVE ShootTimes(_, _, _)
ShootTimes(n, ship, opp) ==
    IF n = 0 THEN <<>> ELSE shoot_nearest_enemy(ship, opp) \o ShootTimes(n - 1, ship, opp)

-----------------------------------------------------------------------------
(* make_turn, one own ship *)

NoShip == [Id |-> 0, Position |-> Zero, Health |-> 0]

NoPoint == [c0 |-> [isList |-> FALSE, d |-> 0, v2 |-> Zero, v1 |-> Zero], c1 |-> Zero, c2 |-> Zero]

(* targets.get(ship.Id, -1) not in [enemy.Id for enemy in battle_state.Opponent]:
   a stored value is a Ship object, which equals no int; the default -1 is an int *)
NotAmongOpponents(tg, id, opp) ==
    IF id \in DOMAIN tg THEN TRUE
    ELSE \A i \in DOMAIN opp : opp[i].Id # -1

(* a key that ignores taken: the nearest opponent, claimed or not *)
check_ships_nearest(ship, enemy, tk) == <<FALSE, Distance(ship.Position, enemy.Position)>>

(* check_ships: the key (enemy.Id in taken, abs(ship.Position - enemy.Position)) *)
check_ships(ship, enemy, tk) == <<enemy.Id \in tk, Distance(ship.Position, enemy.Position)>>

(* Python's order on (bool, int) tuples, False < True *)
KeyLess(a, b) == \/ (~a[1] /\ b[1])
                 \/ (a[1] = b[1] /\ a[2] < b[2])

(* min(battle_state.Opponent, key=check_ships): the first element of the least key *)
RECURSIVE PyMin(_, _, _, _, _)
PyMin(opp, ship, tk, k, best) ==
    IF k > Len(opp) THEN opp[best]
    ELSE PyMin(opp, ship, tk, k + 1,
               IF KeyLess(check_ships(ship, opp[k], tk), check_ships(ship, opp[best], tk))
               THEN k ELSE best)

(* targets[ship.Id] = ... *)
TargetsSet(tg, id, enemy) == [i \in DOMAIN tg \cup {id} |-> IF i = id THEN enemy ELSE tg[i]]

(* a claim that releases an id already claimed *)
TakenToggle(tk, id) == IF id \in tk THEN tk \ {id} ELSE tk \cup {id}

(* taken.add(target.Id) *)
TakenAdd(tk, id) == tk \cup {id}

(* the double loop over my_positions and target_positions; pair k is own point
   (k-1) div 8 with target point (k-1) mod 8.  closest_point[0] starts as the
   int MapSize.  The first pair with dist < MapSize runs
   closest_point[0] = [dist, v2, v1], which makes closest_point[0] a list, and
   the `dist < closest_point[0]` of the pair after it raises TypeError; with no
   such pair closest_point is left as it started *)
ScanClosest(my_positions, target_positions, MapSize) ==
    LET v1(k) == my_positions[((k - 1) \div 8) + 1]
        v2(k) == target_positions[((k - 1) % 8) + 1]
        dist(k) == Distance(v2(k), v1(k))
    IN  IF \A k \in 1..64 : ~(dist(k) < MapSize)
        THEN [err |-> "", c0 |-> [isList |-> FALSE, d |-> MapSize, v2 |-> Zero, v1 |-> Zero]]
        ELSE LET k == CHOOSE i \in 1..64 : dist(i) < MapSize /\ \A j \in 1..(i - 1) : ~(dist(j) < MapSize)
             IN  [err |-> IF k < 64 THEN "TypeError" ELSE "",
                  c0 |-> [isList |-> TRUE, d |-> dist(k), v2 |-> v2(k), v1 |-> v1(k)]]

(* closest_point as the loop leaves it: [0] from the scan, [1] and [2] still
   target_positions[0] and my_positions[0] *)
ClosestPoint(Position, TargetPosition, MapSize) ==
    LET my_positions == get_all_points(Position)
        target_positions == get_all_points(TargetPosition)
        scan == ScanClosest(my_positions, target_positions, MapSize)
    IN  [err |-> scan.err, c0 |-> scan.c0, c1 |-> target_positions[1], c2 |-> my_positions[1]]

(* the escape vector with each axis cut to the engine's MaxAccelerate *)
ClampAxis(x, m) == IF Abs(x) > m THEN m * (IF x > 0 THEN 1 ELSE -1) ELSE x

EscapeV(v, m) == Vector(ClampAxis(v[1], m), ClampAxis(v[2], m), ClampAxis(v[3], m))

(* the body of `for ship in battle_state.My`, after the target is known *)
Engage(ship, opp, cp, MapSize) ==
    LET guns == BlocksOf(ship.Equipment, "Gun")
        engines == BlocksOf(ship.Equipment, "Engine")
    IN  IF engines = <<>> THEN [err |-> "IndexError", cmds |-> <<>>]
        ELSE IF guns = <<>> THEN [err |-> "", cmds |-> make_simple_move(ship, cp.c1)]
        ELSE IF cp.c0.isList THEN [err |-> "TypeError", cmds |-> <<>>]
        ELSE LET gun == guns[1]
                 engine == engines[1]
             IN  IF gun.Radius < cp.c0.d
                 THEN [err |-> "",
                       cmds |-> make_simple_move(ship, cp.c1) \o ShootTimes(Len(guns), ship, opp)]
                 ELSE IF gun.Radius = cp.c0.d
                 THEN [err |-> "",
                       cmds |-> <<AccelerateCommand(ship.Id, VSub(Zero, ship.Velocity))>>
                                \o [i \in 1..Len(guns) |->
                                      AttackCommand(ship.Id, gun.Name, VAdd(cp.c1, Vector(0, 0, i - 1)))]]
                 ELSE LET escape_v == EscapeV(VSub(cp.c2, cp.c1), engine.MaxAccelerate)
                          test == VAdd(ship.Position, escape_v)
                          acc == IF test[1] <= MapSize /\ test[2] <= MapSize /\ test[3] <= MapSize
                                 THEN VSub(escape_v, ship.Velocity)
                                 ELSE VSub(VSub(Zero, escape_v), ship.Velocity)
                      IN  [err |-> "",
                           cmds |-> <<AccelerateCommand(ship.Id, acc)>>
                                    \o ShootTimes(Len(guns), ship, opp)]

(* one pass of the loop of make_turn: the new targets and taken, the commands
   appended, the exception raised (if any) and the trace entry of the pass *)
ShipTurn(ship, opp, tg, tk, MapSize) ==
    LET reassign == NotAmongOpponents(tg, ship.Id, opp)
        entry0 == [ship |-> ship, takenBefore |-> tk, reassigned |-> reassign, target |-> NoShip,
                   closest_point |-> NoPoint, cmds |-> <<>>, err |-> ""]
    IN  IF reassign /\ opp = <<>>
        THEN [targets |-> tg, taken |-> tk, cmds |-> <<>>, err |-> "ValueError",
              entry |-> [entry0 EXCEPT !.err = "ValueError"]]
        ELSE IF ~reassign /\ ship.Id \notin DOMAIN tg
        THEN [targets |-> tg, taken |-> tk, cmds |-> <<>>, err |-> "KeyError",
              entry |-> [entry0 EXCEPT !.err = "KeyError"]]
        ELSE LET tg1 == IF reassign THEN TargetsSet(tg, ship.Id, PyMin(opp, ship, tk, 1, 1)) ELSE tg
                 target == tg1[ship.Id]
                 tk1 == TakenAdd(tk, target.Id)
                 scan == ClosestPoint(ship.Position, target.Position, MapSize)
                 cp == [c0 |-> scan.c0, c1 |-> scan.c1, c2 |-> scan.c2]
                 eng == IF scan.err # "" THEN [err |-> scan.err, cmds |-> <<>>]
                        ELSE Engage(ship, opp, cp, MapSize)
             IN  [targets |-> tg1, taken |-> tk1, cmds |-> eng.cmds, err |-> eng.err,
                  entry |-> [entry0 EXCEPT !.target = target, !.closest_point = cp,
                                           !.cmds = eng.cmds, !.err = eng.err]]

(* the loop `for ship in battle_state.My`, from ship k on; an exception ends it *)
RECURSIVE RunShips(_, _, _, _, _, _, _, _)
RunShips(my, opp, k, tg, tk, cmds, tr, MapSize) ==
    IF k > Len(my) THEN [targets |-> tg, taken |-> tk, cmds |-> cmds, trace |-> tr, err |-> ""]
    ELSE LET r == ShipTurn(my[k], opp, tg, tk, MapSize)
         IN  IF r.err # ""
             THEN [targets |-> r.targets, taken |-> r.taken, cmds |-> cmds,
                   trace |-> Append(tr, r.entry), err |-> r.err]
             ELSE RunShips(my, opp, k + 1, r.targets, r.taken, cmds \o r.cmds,
                           Append(tr, r.entry), MapSize)

-----------------------------------------------------------------------------
(* Requests the model feeds to play_game *)

PlayerIds == {0, 1}

DraftMoney == {120}

OwnIds == {1, 2}

OppIds == {7, 8}

MapSizes == {3}

(* opponent anchors: opponent 7 next to the own anchor <<0, 0, 0>> or further
   out, opponent 8 further out, on the same cell as 7 or on another *)
OppPositions(id) ==
    IF id = 7 THEN {Vector(1, 0, 1), Vector(4, 0, 0)}
    ELSE {Vector(4, 0, 0), Vector(5, 0, 1)}

(* the own ships a request can carry, before their id is set: a scout without
   gun and a short-range ship inside the map; beyond its upper bound a ship
   with two guns of radius MapSize, a long-range ship whose engine cuts some
   escape vectors and not others, and a hull with no equipment at all *)
OwnKinds ==
    { [Position |-> Vector(0, 0, 0), Velocity |-> Zero,
       Equipment |-> <<EngineBlock("e", 2)>>],
      [Position |-> Vector(0, 0, 0), Velocity |-> Vector(1, 0, -1),
       Equipment |-> <<GunBlock("g", 2), EngineBlock("e", 2)>>],
      [Position |-> Vector(9, 0, 0), Velocity |-> Vector(1, 0, -1),
       Equipment |-> <<GunBlock("g", 3), GunBlock("h", 3), EngineBlock("e", 2)>>],
      [Position |-> Vector(9, 1, 0), Velocity |-> Zero,
       Equipment |-> <<GunBlock("g", 6), GunBlock("h", 6), EngineBlock("e", 4)>>],
      [Position |-> Vector(9, 0, 0), Velocity |-> Vector(1, 0, -1), Equipment |-> <<>>] }

OwnShips(id) ==
    { [Id |-> id, Position |-> k.Position, Velocity |-> k.Velocity, Equipment |-> k.Equipment] :
        k \in OwnKinds }

(* opponent 7 is the healthier one, so list order and Health order can differ *)
OppHealth(id) == IF id = 7 THEN MaxHealth ELSE 1

OppShips(id) == { [Id |-> id, Position |-> p, Health |-> OppHealth(id)] : p \in OppPositions(id) }

(* lists of at most two ships with different ids; own ships in ascending id
   order, opponents in either order *)
MyLists ==
    {<<>>}
    \cup UNION { { <<s>> : s \in OwnShips(i) } : i \in OwnIds }
    \cup UNION { { <<s, t>> : s \in OwnShips(q[1]), t \in OwnShips(q[2]) } :
                   q \in { q \in OwnIds \X OwnIds : q[1] < q[2] } }

OppLists ==
    {<<>>}
    \cup UNION { { <<s>> : s \in OppShips(i) } : i \in OppIds }
    \cup UNION { { <<s, t>> : s \in OppShips(q[1]), t \in OppShips(q[2]) } :
                   q \in { q \in OppIds \X OppIds : q[1] # q[2] } }

Ids(list) == { list[i].Id : i \in DOMAIN list }

-----------------------------------------------------------------------------
(* State machine of play_game *)

(* draft_options before make_draft has bound it *)
NoDraft == [defined |-> FALSE, PlayerId |-> 0, MapSize |-> 0, Money |-> 0]

NoTargets == [i \in {} |-> NoShip]

NoPre == [targets |-> NoTargets, taken |-> {}]

Init ==
    /\ pc = "idle"
    /\ draft_options = NoDraft
    /\ draft_choice = <<>>
    /\ targets = NoTargets
    /\ taken = {}
    /\ My = <<>>
    /\ Opponent = <<>>
    /\ out = <<>>
    /\ err = ""
    /\ pre = NoPre
    /\ trace = <<>>
    /\ turn = 0

(* the purchase loop of make_draft: forwards while the money lasts, then scouts *)
RECURSIVE Buy(_, _, _)
Buy(i, Money, Ships) ==
    IF i = ShipsToBuy THEN [Money |-> Money, Ships |-> Ships]
    ELSE IF Money >= ForwardPrice
    THEN Buy(i + 1, Money - ForwardPrice, Append(Ships, "forward"))
    ELSE Buy(i + 1, Money, Append(Ships, "scout"))

(* a line with 'PlayerId': make_draft.  The game sends it once, before any turn *)
MakeDraft ==
    /\ pc = "idle"
    /\ ~draft_options.defined
    /\ turn = 0
    /\ \E PlayerId \in PlayerIds, MapSize \in MapSizes, Money \in DraftMoney :
          LET b == Buy(0, Money, <<>>)
          IN  /\ draft_options' = [defined |-> TRUE, PlayerId |-> PlayerId,
                                    MapSize |-> MapSize, Money |-> b.Money]
              /\ draft_choice' = b.Ships
    /\ UNCHANGED <<pc, targets, taken, My, Opponent, out, err, pre, trace, turn>>

(* play_game reads a line with 'My' and decodes the snapshot *)
Receive ==
    /\ pc = "idle"
    /\ draft_options.defined
    /\ turn < MaxTurns
    /\ My' \in MyLists
    /\ Opponent' \in OppLists
    /\ pc' = "turn"
    /\ UNCHANGED <<draft_options, draft_choice, targets, taken, out, err, pre, trace, turn>>

(* make_turn on the decoded snapshot.  An exception leaves make_turn and
   play_game: the process is gone, with targets and taken as the passes
   before it left them *)
MakeTurn ==
    /\ pc = "turn"
    /\ pre' = [targets |-> targets, taken |-> taken]
    /\ turn' = turn + 1
    /\ \E r \in {RunShips(My, Opponent, 1, targets, taken, <<>>, <<>>, draft_options.MapSize)} :
          /\ targets' = r.targets
          /\ taken' = r.taken
          /\ out' = r.cmds
          /\ trace' = r.trace
          /\ err' = r.err
          /\ pc' = IF r.err = "" THEN "respond" ELSE "crashed"
    /\ UNCHANGED <<draft_options, draft_choice, My, Opponent>>

(* play_game prints the batch and goes back to input(); the locals are gone *)
Respond ==
    /\ pc = "respond"
    /\ pc' = "idle"
    /\ My' = <<>>
    /\ Opponent' = <<>>
    /\ out' = <<>>
    /\ trace' = <<>>
    /\ pre' = NoPre
    /\ UNCHANGED <<draft_options, draft_choice, targets, taken, err, turn>>

Next == MakeDraft \/ Receive \/ MakeTurn \/ Respond

Spec == Init /\ [][Next]_vars

-----------------------------------------------------------------------------
(* Runs in which every turn has an own ship and the same opponent ids *)

ReceiveFixed ==
    /\ pc = "idle"
    /\ draft_options.defined
    /\ turn < MaxTurns
    /\ My' \in MyLists \ {<<>>}
    /\ Opponent' \in { o \in OppLists : Ids(o) = OppIds }
    /\ pc' = "turn"
    /\ UNCHANGED <<draft_options, draft_choice, targets, taken, out, err, pre, trace, turn>>

LiveNext == MakeDraft \/ ReceiveFixed \/ MakeTurn \/ Respond

(* the game sends the draft and keeps sending turns, and play_game prints
   every batch; make_turn itself cannot run forever, its loops being over
   finite lists: it returns or raises, which leaves pc = "turn" *)
LiveSpec ==
    /\ Init
    /\ [][LiveNext]_vars
    /\ WF_vars(MakeDraft)
    /\ WF_vars(ReceiveFixed)
    /\ WF_vars(Respond)
    /\ []<>(pc # "turn")

-----------------------------------------------------------------------------
(* shoot_nearest_enemy on its own: one call for one ship and an opponent list *)

ShootAnchor == Vector(2, 2, 2)

ShootOffsets == {-3, 0, 2}

ShootPositions ==
    { VAdd(ShootAnchor, Vector(dx, dy, dz)) : dx \in ShootOffsets, dy \in ShootOffsets, dz \in ShootOffsets }

ShootOpps(id) ==
    { [Id |-> id, Position |-> p, Health |-> h] : p \in ShootPositions, h \in 1..MaxHealth }

ShootOppLists ==
    {<<>>}
    \cup UNION { { <<s>> : s \in ShootOpps(i) } : i \in OppIds }
    \cup UNION { { <<s, t>> : s \in ShootOpps(q[1]), t \in ShootOpps(q[2]) } :
                   q \in { q \in OppIds \X OppIds : q[1] # q[2] } }

Shooters ==
    { [Id |-> 1, Position |-> ShootAnchor, Velocity |-> Zero,
       Equipment |-> <<EngineBlock("e", 2), GunBlock("g", r), GunBlock("h", r + 1)>>] :
        r \in 1..MaxRadius }
    \cup { [Id |-> 1, Position |-> ShootAnchor, Velocity |-> Zero,
            Equipment |-> <<EngineBlock("e", 2)>>] }

ShootInit ==
    /\ pc = "shoot"
    /\ draft_options = NoDraft
    /\ draft_choice = <<>>
    /\ targets = NoTargets
    /\ taken = {}
    /\ My \in { <<s>> : s \in Shooters }
    /\ Opponent \in ShootOppLists
    /\ out = <<>>
    /\ err = ""
    /\ pre = NoPre
    /\ trace = <<>>
    /\ turn = 0

Shoot ==
    /\ pc = "shoot"
    /\ out' = out \o shoot_nearest_enemy(My[1], Opponent)
    /\ pc' = "shot"
    /\ UNCHANGED <<draft_options, draft_choice, targets, taken, My, Opponent, err, pre, trace, turn>>

ShootSpec == ShootInit /\ [][Shoot]_vars

-----------------------------------------------------------------------------
(* Vocabulary of the properties, stated without the operators of the model *)

Chebyshev(a, b) ==
    LET s == { Abs(a[i] - b[i]) : i \in 1..3 }
    IN  CHOOSE m \in s : \A x \in s : x <= m

(* the pass ended with a target for its ship *)
HasTarget(e) == e.err \notin {"ValueError", "KeyError"}

(* a make_turn call has run and its passes are in trace *)
TurnDone == pc \in {"respond", "crashed"}

(* the firing solution between two cubes: the least corner-to-corner distance
   and the first pair attaining it, own corners outermost *)
BestSolution(Position, TargetPosition) ==
    LET mp == get_all_points(Position)
        tp == get_all_points(TargetPosition)
        oc(k) == mp[((k - 1) \div 8) + 1]
        tc(k) == tp[((k - 1) % 8) + 1]
        d(k) == Chebyshev(tc(k), oc(k))
        k0 == CHOOSE k \in 1..64 : \A j \in 1..64 : /\ d(k) <= d(j)
                                                      /\ (j < k => d(k) < d(j))
    IN  [best_distance |-> d(k0), target_corner |-> tc(k0), own_corner |-> oc(k0)]

CommandsOf(cmds, kind) == SelectSeq(cmds, LAMBDA c : c.Command = kind)

-----------------------------------------------------------------------------
(* C1: a ship whose remembered target's id is among the current opponents
   keeps that opponent as its target; a new target is selected only when
   there is no remembered target or its id is absent. *)
C1_TargetPersists ==
    pc = "respond" =>
        \A n \in DOMAIN trace :
            LET e == trace[n]
                id == e.ship.Id
            IN  (/\ HasTarget(e)
                 /\ id \in DOMAIN pre.targets
                 /\ pre.targets[id].Id \in Ids(Opponent))
                => e.target.Id = pre.targets[id].Id

(* C2: a selected target is a minimum of the opponents of the turn under the
   key (id already in taken, Chebyshev distance of the anchors), False before
   True; it is the first such opponent in list order; and a taken opponent is
   selected only when every opponent is taken. *)
C2_SelectionIsLexMin ==
    TurnDone =>
        \A n \in DOMAIN trace :
            LET e == trace[n]
                tkn(j) == Opponent[j].Id \in e.takenBefore
                dst(j) == Chebyshev(e.ship.Position, Opponent[j].Position)
                before(i, j) == \/ (~tkn(i) /\ tkn(j))
                                \/ (tkn(i) = tkn(j) /\ dst(i) < dst(j))
            IN  (e.reassigned /\ HasTarget(e)) =>
                    \E i \in DOMAIN Opponent :
                        /\ e.target = Opponent[i]
                        /\ \A j \in DOMAIN Opponent : /\ ~before(j, i)
                                                       /\ (j < i => before(i, j))
                                                       /\ (tkn(i) => tkn(j))
                        /\ (pc = "respond" => targets[e.ship.Id] = e.target)

(* a turn in which a ship passed over a nearer, already taken opponent *)
C2_Witness ==
    /\ pc = "respond"
    /\ \E n \in DOMAIN trace, j \in DOMAIN Opponent :
          /\ trace[n].reassigned
          /\ Opponent[j].Id \in trace[n].takenBefore
          /\ trace[n].target.Id \notin trace[n].takenBefore
          /\ Chebyshev(trace[n].ship.Position, Opponent[j].Position)
               < Chebyshev(trace[n].ship.Position, trace[n].target.Position)

(* C3: for every ship with a target the computation completes and
   closest_point is (best_distance, target_corner, own_corner) of the first
   pair of corners, own corners outermost, with the least Chebyshev distance. *)
C3_FiringSolution ==
    TurnDone =>
        \A n \in DOMAIN trace :
            LET e == trace[n]
                b == BestSolution(e.ship.Position, e.target.Position)
            IN  HasTarget(e) =>
                    /\ e.err # "TypeError"
                    /\ ~e.closest_point.c0.isList
                    /\ e.closest_point.c0.d = b.best_distance
                    /\ e.closest_point.c1 = b.target_corner
                    /\ e.closest_point.c2 = b.own_corner

(* C4: for a ship with a gun and an engine the branch is a function of the
   radius of its first gun and best_distance only: below it one MOVE, then
   ATTACKs; equal to it one ACCELERATE of minus the velocity, then one ATTACK
   per gun; above it one ACCELERATE, then ATTACKs. *)
C4_BranchByRadius ==
    TurnDone =>
        \A n \in DOMAIN trace :
            LET e == trace[n]
                guns == BlocksOf(e.ship.Equipment, "Gun")
                engines == BlocksOf(e.ship.Equipment, "Engine")
                b == BestSolution(e.ship.Position, e.target.Position)
                moves == CommandsOf(e.cmds, "MOVE")
                accs == CommandsOf(e.cmds, "ACCELERATE")
                atts == CommandsOf(e.cmds, "ATTACK")
            IN  (HasTarget(e) /\ guns # <<>> /\ engines # <<>>) =>
                    /\ e.err = ""
                    /\ Len(moves) + Len(accs) = 1
                    /\ e.cmds[1].Command # "ATTACK"
                    /\ \A k \in DOMAIN e.cmds : e.cmds[k].Id = e.ship.Id
                    /\ (guns[1].Radius < b.best_distance => Len(moves) = 1)
                    /\ (guns[1].Radius = b.best_distance =>
                            /\ accs = <<AccelerateCommand(e.ship.Id, VSub(Zero, e.ship.Velocity))>>
                            /\ Len(atts) = Len(guns))
                    /\ (guns[1].Radius > b.best_distance => Len(accs) = 1)

(* C6: a ship without a gun is answered with exactly one MOVE, aimed at the
   closest corner of its target, and nothing else. *)
C6_NoGunMoves ==
    TurnDone =>
        \A n \in DOMAIN trace :
            LET e == trace[n]
                b == BestSolution(e.ship.Position, e.target.Position)
            IN  (HasTarget(e) /\ BlocksOf(e.ship.Equipment, "Gun") = <<>>) =>
                    /\ e.err = ""
                    /\ Len(e.cmds) = 1
                    /\ e.cmds[1].Command = "MOVE"
                    /\ e.cmds[1].Id = e.ship.Id
                    /\ e.cmds[1].Target \in
                         { b.target_corner,
                           adapt(draft_options.PlayerId, b.target_corner, draft_options.MapSize) }

(* C7: a MOVE carries the point make_turn computed, mirrored to
   MapSize - 2 - coordinate on each axis when the drafted PlayerId is 1 and
   unchanged for any other PlayerId. *)
C7_MoveIsMirrored ==
    TurnDone =>
        \A n \in DOMAIN trace :
            \A k \in DOMAIN trace[n].cmds :
                LET c == trace[n].cmds[k]
                    p == trace[n].closest_point.c1
                    MapSize == draft_options.MapSize
                IN  c.Command = "MOVE" =>
                        c.Target = IF draft_options.PlayerId = 1
                                   THEN Vector(MapSize - 2 - p[1], MapSize - 2 - p[2], MapSize - 2 - p[3])
                                   ELSE p

(* C8: when the radius of the first gun exceeds best_distance, the ACCELERATE
   carries V - velocity: E is own_corner - target_corner with every axis cut
   to [-m, m], m the MaxAccelerate of the first engine, and V is E if
   position + E stays within MapSize on every axis and -E otherwise. *)
C8_EscapeVector ==
    TurnDone =>
        \A n \in DOMAIN trace :
            LET e == trace[n]
                guns == BlocksOf(e.ship.Equipment, "Gun")
                engines == BlocksOf(e.ship.Equipment, "Engine")
                b == BestSolution(e.ship.Position, e.target.Position)
                m == engines[1].MaxAccelerate
                cut(x) == IF x > m THEN m ELSE IF x < -m THEN -m ELSE x
                raw == VSub(b.own_corner, b.target_corner)
                E == Vector(cut(raw[1]), cut(raw[2]), cut(raw[3]))
                inside == \A a \in 1..3 : e.ship.Position[a] + E[a] <= draft_options.MapSize
                V == IF inside THEN E ELSE VSub(Zero, E)
            IN  (/\ HasTarget(e) /\ e.err = ""
                 /\ guns # <<>> /\ engines # <<>>
                 /\ guns[1].Radius > b.best_distance)
                => CommandsOf(e.cmds, "ACCELERATE")
                     = <<AccelerateCommand(e.ship.Id, VSub(V, e.ship.Velocity))>>

-----------------------------------------------------------------------------
(* The own ships of the turn in another order *)

Perms(n) == { p \in [1..n -> 1..n] : \A i, j \in 1..n : p[i] = p[j] => i = j }

Permuted(my, p) == [i \in 1..Len(my) |-> my[p[i]]]

(* make_turn on the same opponents and the same starting targets and taken *)
Rerun(my) == RunShips(my, Opponent, 1, pre.targets, pre.taken, <<>>, <<>>, draft_options.MapSize)

(* every ship of the rerun got the target and the commands it got in the turn *)
SamePerShip(r) ==
    \A n \in DOMAIN r.trace :
        \E k \in DOMAIN trace :
            /\ trace[k].ship = r.trace[n].ship
            /\ trace[k].target = r.trace[n].target
            /\ trace[k].cmds = r.trace[n].cmds

(* C5: within one make_turn call the target and the commands of a ship do
   not depend on the order of the own ships: any permutation of My, from the
   same targets and taken and against the same opponents, gives every ship
   the same target and the same commands. *)
C5_OrderIndependent ==
    pc = "respond" =>
        \A p \in Perms(Len(My)) :
            LET r == Rerun(Permuted(My, p))
            IN  r.err = "" /\ SamePerShip(r)

(* C5, amended: the order of the own ships is immaterial when every opponent
   of the turn is already in taken when the call starts; then any permutation
   of My raises exactly when the turn raised, and otherwise gives every ship
   the same target and the same commands. *)
C5_OrderIndependentOnceTaken ==
    (TurnDone /\ Ids(Opponent) \subseteq pre.taken) =>
        \A p \in Perms(Len(My)) :
            Permuted(My, p) # My =>
                LET r == Rerun(Permuted(My, p))
                IN  /\ (r.err = "") = (err = "")
                    /\ (err = "" => SamePerShip(r))

(* a turn of two ships against two opponents, both taken beforehand, in
   which the ships got different targets *)
C5_Witness ==
    /\ pc = "respond"
    /\ Len(My) = 2
    /\ Len(Opponent) = 2
    /\ Ids(Opponent) \subseteq pre.taken
    /\ trace[1].target # trace[2].target

(* C9: no make_turn call removes an id from taken, and when every turn has
   an own ship and the same opponent ids, taken comes to hold every opponent
   id for good, and from then on a selected target is the nearest opponent. *)
C9_TakenFills ==
    /\ [][taken \subseteq taken']_vars
    /\ <>[](OppIds \subseteq taken)
    /\ [](TurnDone /\ OppIds \subseteq pre.taken =>
            \A n \in DOMAIN trace :
                HasTarget(trace[n]) =>
                    \A j \in DOMAIN Opponent :
                        Chebyshev(trace[n].ship.Position, trace[n].target.Position)
                          <= Chebyshev(trace[n].ship.Position, Opponent[j].Position))

-----------------------------------------------------------------------------
(* The shot shoot_nearest_enemy owes, stated from the geometry *)

(* the firing port: the corner of the shooter on the side of the opponent,
   the far side on X and Y, the near side on Z *)
Port(ship, enemy) ==
    LET dx == enemy.Position[1] - ship.Position[1]
        dy == enemy.Position[2] - ship.Position[2]
        dz == enemy.Position[3] - ship.Position[3]
    IN  <<ship.Position[1] + (IF dx >= 0 THEN 0 ELSE 1),
          ship.Position[2] + (IF dy >= 0 THEN 0 ELSE 1),
          ship.Position[3] + (IF dz >= 0 THEN 1 ELSE 0)>>

(* indices of the corners of the opponent the gun reaches from the port *)
InReach(ship, enemy, Radius) ==
    { c \in 1..8 : Chebyshev(get_all_points(enemy.Position)[c], Port(ship, enemy)) <= Radius }

(* the corner recorded for a reachable opponent: the first of the nearest *)
RecordedCorner(ship, enemy, Radius) ==
    LET pts == get_all_points(enemy.Position)
        port == Port(ship, enemy)
        reach == InReach(ship, enemy, Radius)
        c0 == CHOOSE c \in reach :
                \A d \in reach : /\ Chebyshev(pts[c], port) <= Chebyshev(pts[d], port)
                                 /\ (d < c => Chebyshev(pts[c], port) < Chebyshev(pts[d], port))
    IN  pts[c0]

(* C10: one call of shoot_nearest_enemy for a ship with a gun emits at most
   one ATTACK; nothing if no opponent has a corner within the radius of the
   first gun from its firing port; otherwise one ATTACK, by the first gun, at
   the recorded corner of the reachable opponent of the lowest Health, the
   earliest in opponent order on ties, and that corner is within the radius
   of a corner of the shooter. *)
C10_ShotAtWeakestReachable ==
    (pc = "shot" /\ BlocksOf(My[1].Equipment, "Gun") # <<>>) =>
        LET ship == My[1]
            gun == BlocksOf(ship.Equipment, "Gun")[1]
            reachable == { i \in DOMAIN Opponent : InReach(ship, Opponent[i], gun.Radius) # {} }
        IN  /\ Len(out) <= 1
            /\ (reachable = {} => out = <<>>)
            /\ (reachable # {} =>
                  \E i \in reachable :
                      /\ \A j \in reachable : /\ Opponent[i].Health <= Opponent[j].Health
                                              /\ (j < i => Opponent[i].Health < Opponent[j].Health)
                      /\ out = <<[Command |-> "ATTACK", Id |-> ship.Id, Name |-> gun.Name,
                                  Target |-> RecordedCorner(ship, Opponent[i], gun.Radius)]>>
                      /\ \E c \in 1..8 :
                            Chebyshev(out[1].Target, get_all_points(ship.Position)[c]) <= gun.Radius)

(* a shot at the second opponent of the list: the weaker of two reachable ones *)
C10_Witness ==
    /\ pc = "shot"
    /\ Len(Opponent) = 2
    /\ Len(out) = 1
    /\ \A i \in 1..2 : InReach(My[1], Opponent[i], BlocksOf(My[1].Equipment, "Gun")[1].Radius) # {}
    /\ Opponent[2].Health < Opponent[1].Health
    /\ out[1].Target = RecordedCorner(My[1], Opponent[2], BlocksOf(My[1].Equipment, "Gun")[1].Radius)
    /\ out[1].Target \notin { get_all_points(Opponent[1].Position)[c] : c \in 1..8 }

=============================================================================
